---------------------------- MODULE Spec2Model ----------------------------
(***************************************************************************)
(* A model of yaml_conversion/converters.py: the URL-handler restructuring *)
(* (ConvertUrlHandler, _GetHandlerType) and the EnumConverter factory.     *)
(*                                                                         *)
(* A Python str is a sequence of one-character strings; a Python dict is a *)
(* function whose DOMAIN is its key set.  A raised exception is an outcome *)
(* whose status names the exception class.                                 *)
(***************************************************************************)
EXTENDS Integers, Sequences, FiniteSets, TLC

VARIABLES
  handler,    \* the handler dict object the caller holds
  passed,     \* the value of that dict when the last call started
  lastOp,     \* the function the caller invoked last
  ret,        \* what that call returned or raised
  first,      \* what the first ConvertUrlHandler call on the dict returned or raised
  ncalls,     \* number of ConvertUrlHandler calls made on the dict
  prefix,     \* the argument given to EnumConverter
  converter,  \* what EnumConverter(prefix) returned or raised
  enumArg,    \* the value the returned lambda was last applied to
  enumRet,    \* what the lambda returned
  pc,         \* per thread: position inside ConvertUrlHandler
  locals,     \* per thread: handler_type, tmp
  outcome     \* per thread: what its call returned or raised

vars == <<handler, passed, lastOp, ret, first, ncalls,
          prefix, converter, enumArg, enumRet, pc, locals, outcome>>

handlerVars == <<handler, passed, lastOp, ret, first, ncalls>>
enumVars == <<prefix, converter, enumArg, enumRet>>
threadVars == <<pc, locals, outcome>>

---------------------------------------------------------------------------
(* Bounds of the model *)

MaxLen == 2
MaxFields == 3
MaxCalls == 2
NThreads == 2
MaxConcFields == 3

---------------------------------------------------------------------------
(* Field tables, converters.py lines 26-50 *)

COMMON_HANDLER_FIELDS ==
  {"urlRegex", "login", "authFailAction", "securityLevel", "redirectHttpResponseCode"}

SCRIPT_FIELDS == {"scriptPath"}

STATIC_FILES_FIELDS ==
  {"path", "uploadPathRegex", "httpHeaders", "expiration", "applicationReadable",
   "mimeType", "requireMatchingFile"}

HANDLER_TYPES == {"staticFiles", "script", "apiEndpoint"}

HANDLER_FIELDS(handler_type) ==
  CASE handler_type = "staticFiles" -> STATIC_FILES_FIELDS
    [] handler_type = "script" -> SCRIPT_FIELDS
    [] handler_type = "apiEndpoint" -> SCRIPT_FIELDS

\* The four keys _GetHandlerType tests.
DISCRIMINANTS == {"apiEndpoint", "staticDir", "path", "scriptPath"}

---------------------------------------------------------------------------
(* Strings and dicts *)

EmptyDict == [f \in {} |-> <<>>]

\* str.rstrip(chars): drop every trailing character that is in chars.
RECURSIVE rstrip(_, _)
rstrip(s, chars) ==
  IF Len(s) > 0 /\ s[Len(s)] \in chars
    THEN rstrip(SubSeq(s, 1, Len(s) - 1), chars)
    ELSE s

\* dict.update(other)
DictUpdate(d, other) ==
  [f \in (DOMAIN d) \cup (DOMAIN other) |-> IF f \in DOMAIN other THEN other[f] ELSE d[f]]

\* del d[key]
DictDel(d, key) == [f \in (DOMAIN d) \ {key} |-> d[f]]

Raise(exc) == [status |-> exc, value |-> EmptyDict]
Return(v) == [status |-> "ok", value |-> v]
NoCall == [status |-> "none", value |-> EmptyDict]

---------------------------------------------------------------------------
(* _GetHandlerType, converters.py lines 250-271 *)

\* Variant: 'path' tested before 'staticDir'.
GetHandlerType_PathBeforeStaticDir(h) ==
  IF "apiEndpoint" \in DOMAIN h THEN Return("apiEndpoint")
  ELSE IF "path" \in DOMAIN h THEN Return("staticFiles")
  ELSE IF "staticDir" \in DOMAIN h THEN Return("staticDirectory")
  ELSE IF "scriptPath" \in DOMAIN h THEN Return("script")
  ELSE [status |-> "ValueError", value |-> "Unrecognized handler type"]

\* Variant: falls back to 'script' instead of raising.
GetHandlerType_DefaultScript(h) ==
  IF "apiEndpoint" \in DOMAIN h THEN Return("apiEndpoint")
  ELSE IF "staticDir" \in DOMAIN h THEN Return("staticDirectory")
  ELSE IF "path" \in DOMAIN h THEN Return("staticFiles")
  ELSE Return("script")

GetHandlerType(h) ==
  IF "apiEndpoint" \in DOMAIN h THEN Return("apiEndpoint")
  ELSE IF "staticDir" \in DOMAIN h THEN Return("staticDirectory")
  ELSE IF "path" \in DOMAIN h THEN Return("staticFiles")
  ELSE IF "scriptPath" \in DOMAIN h THEN Return("script")
  ELSE [status |-> "ValueError", value |-> "Unrecognized handler type"]

---------------------------------------------------------------------------
(* ConvertUrlHandler, converters.py lines 189-247 *)

\* Variant: drops at most one trailing slash.
AppendRegexToPath_StripOne(path, regex) ==
  (IF Len(path) > 0 /\ path[Len(path)] = "/" THEN SubSeq(path, 1, Len(path) - 1) ELSE path)
    \o <<"/">> \o regex

AppendRegexToPath(path, regex) == rstrip(path, {"/"}) \o <<"/">> \o regex

\* The regex literals r'\1', '.*' and '(.*)' of lines 227-229.
BackRef == <<"\\", "1">>
DotStar == <<".", "*">>
GroupDotStar == <<"(", ".", "*", ")">>

\* Lines 226-230: the dict tmp; each subscript raises KeyError on an absent key.
BuildTmp(h) ==
  IF "staticDir" \notin DOMAIN h \/ "urlRegex" \notin DOMAIN h
    THEN Raise("KeyError")
    ELSE Return([f \in {"path", "uploadPathRegex", "urlRegex"} |->
                  CASE f = "path" -> AppendRegexToPath(h["staticDir"], BackRef)
                    [] f = "uploadPathRegex" -> AppendRegexToPath(h["staticDir"], DotStar)
                    [] f = "urlRegex" -> AppendRegexToPath(h["urlRegex"], GroupDotStar)])

\* Line 231: del handler['staticDir'].
DelStaticDir(h) ==
  IF "staticDir" \in DOMAIN h THEN Return(DictDel(h, "staticDir")) ELSE Raise("KeyError")

\* Variant: every field that is not common goes into the sub-message.
CopyTypeFields_NoAllowlist(h, handler_type) ==
  [f \in (DOMAIN h) \ COMMON_HANDLER_FIELDS |-> h[f]]

\* Variant: the loop assigns the value read for one field to every field.
CopyCommonFields_StaleValue(h) ==
  LET present == COMMON_HANDLER_FIELDS \cap DOMAIN h
  IN [f \in present |-> h[CHOOSE g \in present : TRUE]]

\* Lines 238-240: the fields of the type's allowlist found in the handler.
CopyTypeFields(h, handler_type) ==
  [f \in HANDLER_FIELDS(handler_type) \cap DOMAIN h |-> h[f]]

\* Lines 243-245: the common fields found in the handler.
CopyCommonFields(h) ==
  [f \in COMMON_HANDLER_FIELDS \cap DOMAIN h |-> h[f]]

\* Lines 235-247: new_handler.
Restructure(h, handler_type) ==
  LET sub == CopyTypeFields(h, handler_type)
      common == CopyCommonFields(h)
  IN [k \in {handler_type} \cup DOMAIN common |->
        IF k = handler_type THEN sub ELSE common[k]]

\* Variant: line 231 missing, staticDir stays in the handler.
ExpandStaticDir_NoDel(h) ==
  LET tmp == BuildTmp(h) IN
  IF tmp.status # "ok" THEN [status |-> tmp.status, handler |-> h]
  ELSE [status |-> "ok", handler |-> DictUpdate(h, tmp.value)]

\* Variant: staticDir is deleted before handler['urlRegex'] is read.
ExpandStaticDir_DelFirst(h) ==
  LET d == DelStaticDir(h) IN
  IF d.status # "ok" THEN [status |-> d.status, handler |-> h]
  ELSE LET tmp == BuildTmp(h) IN
       IF tmp.status # "ok" THEN [status |-> tmp.status, handler |-> d.value]
       ELSE [status |-> "ok", handler |-> DictUpdate(d.value, tmp.value)]

\* Lines 225-233: the sugar expansion, in the order the statements run.
\* Yields the handler dict afterwards and whether a statement raised.
ExpandStaticDir(h) ==
  LET tmp == BuildTmp(h) IN
  IF tmp.status # "ok" THEN [status |-> tmp.status, handler |-> h]
  ELSE LET d == DelStaticDir(h) IN
       IF d.status # "ok" THEN [status |-> d.status, handler |-> h]
       ELSE [status |-> "ok", handler |-> DictUpdate(d.value, tmp.value)]

\* One whole call: the outcome and the state the argument dict is left in.
ConvertUrlHandler(h) ==
  LET t == GetHandlerType(h) IN
  IF t.status # "ok" THEN [status |-> t.status, value |-> EmptyDict, handler |-> h]
  ELSE IF t.value = "staticDirectory"
    THEN LET e == ExpandStaticDir(h) IN
         IF e.status # "ok"
           THEN [status |-> e.status, value |-> EmptyDict, handler |-> e.handler]
           ELSE [status |-> "ok", value |-> Restructure(e.handler, "staticFiles"),
                 handler |-> e.handler]
    ELSE [status |-> "ok", value |-> Restructure(h, t.value), handler |-> h]

---------------------------------------------------------------------------
(* Inputs: the handler dicts a caller can construct *)

Chars == {"a", "/"}

RECURSIVE StrsUpTo(_, _)
StrsUpTo(alphabet, n) ==
  IF n = 0 THEN {<<>>}
  ELSE LET shorter == StrsUpTo(alphabet, n - 1)
       IN shorter \cup {Append(s, c) : s \in shorter, c \in alphabet}

\* Values of the two fields the sugar expansion reads.
PathStrs == StrsUpTo(Chars, MaxLen)

\* Values of every other field.
ScalarVals == {<<"x">>, <<"y">>}

\* A field outside every table of the module.
OtherField == "service"

Fields == DISCRIMINANTS \cup COMMON_HANDLER_FIELDS \cup STATIC_FILES_FIELDS \cup {OtherField}

ValuesOf(f) == IF f \in {"staticDir", "urlRegex"} THEN PathStrs ELSE ScalarVals

\* Every dict with key set D whose values are values of their fields.
RECURSIVE DictsOver(_)
DictsOver(D) ==
  IF D = {} THEN {EmptyDict}
  ELSE LET f == CHOOSE g \in D : TRUE
       IN {DictUpdate(d, [g \in {f} |-> v]) : d \in DictsOver(D \ {f}), v \in ValuesOf(f)}

\* The key sets of the dicts with at most n keys.
KeySets(n) == {S \in SUBSET Fields : Cardinality(S) <= n}

---------------------------------------------------------------------------
(* EnumConverter, converters.py lines 53-74 *)

\* str.upper() on the characters of the model's alphabet.
UpperChar(c) == IF c = "a" THEN "A" ELSE c
upper(s) == [i \in 1..Len(s) |-> UpperChar(s[i])]

\* str.endswith(c) for a one-character suffix.
endswith(s, c) == Len(s) > 0 /\ s[Len(s)] = c

\* sep.join(list)
RECURSIVE join(_, _)
join(sep, list) ==
  IF Len(list) = 0 THEN <<>>
  ELSE IF Len(list) = 1 THEN list[1]
  ELSE list[1] \o sep \o join(sep, Tail(list))

\* Variant: no test for a trailing underscore.
EnumConverter_NoUnderscoreCheck(p) ==
  IF Len(p) = 0 THEN Raise("ValueError")
  ELSE IF p # upper(p) THEN Raise("ValueError")
  ELSE [status |-> "ok", value |-> p]

\* The factory: raises ValueError, or returns the lambda closed over prefix.
EnumConverter(p) ==
  IF Len(p) = 0 THEN Raise("ValueError")
  ELSE IF p # upper(p) THEN Raise("ValueError")
  ELSE IF endswith(p, "_") THEN Raise("ValueError")
  ELSE [status |-> "ok", value |-> p]

\* Line 74: the body of the returned lambda.
EnumLambda(p, value) == join(<<"_">>, <<p, upper(value)>>)

EnumChars == {"a", "A", "_", "1"}
EnumStrs == StrsUpTo(EnumChars, MaxLen)

---------------------------------------------------------------------------
(* The caller of the handler functions, one call at a time *)

Threads == 1..NThreads

IdleEnum ==
  /\ prefix = <<>>
  /\ converter = NoCall
  /\ enumArg = <<>>
  /\ enumRet = NoCall

IdleThreads ==
  /\ pc = [t \in Threads |-> "idle"]
  /\ locals = [t \in Threads |-> [handler_type |-> "none", tmp |-> EmptyDict]]
  /\ outcome = [t \in Threads |-> NoCall]

IdleHandler ==
  /\ handler = EmptyDict
  /\ passed = EmptyDict
  /\ lastOp = "none"
  /\ ret = NoCall
  /\ first = NoCall
  /\ ncalls = 0

Init ==
  /\ \E D \in KeySets(MaxFields) : handler \in DictsOver(D)
  /\ passed = handler
  /\ lastOp = "none"
  /\ ret = NoCall
  /\ first = NoCall
  /\ ncalls = 0
  /\ IdleEnum
  /\ IdleThreads

\* handler_type = _GetHandlerType(handler), called on its own.
CallGetHandlerType ==
  /\ passed' = handler
  /\ lastOp' = "_GetHandlerType"
  /\ ret' = GetHandlerType(handler)
  /\ UNCHANGED <<handler, first, ncalls, enumVars, threadVars>>

\* new_handler = ConvertUrlHandler(handler), run to completion.
CallConvertUrlHandler ==
  /\ ncalls < MaxCalls
  /\ LET r == ConvertUrlHandler(handler)
         o == [status |-> r.status, value |-> r.value]
     IN /\ passed' = handler
        /\ handler' = r.handler
        /\ lastOp' = "ConvertUrlHandler"
        /\ ret' = o
        /\ first' = IF ncalls = 0 THEN o ELSE first
        /\ ncalls' = ncalls + 1
  /\ UNCHANGED <<enumVars, threadVars>>

Next == CallGetHandlerType \/ CallConvertUrlHandler

Spec == Init /\ [][Next]_vars

---------------------------------------------------------------------------
(* The caller of EnumConverter *)

InitEnum ==
  /\ prefix \in EnumStrs
  /\ converter = NoCall
  /\ enumArg = <<>>
  /\ enumRet = NoCall
  /\ IdleHandler
  /\ IdleThreads

\* converter = EnumConverter(prefix)
CallEnumConverter ==
  /\ converter = NoCall
  /\ converter' = EnumConverter(prefix)
  /\ UNCHANGED <<prefix, enumArg, enumRet, handlerVars, threadVars>>

\* converter(value), for a converter the factory returned.
ApplyConverter ==
  /\ converter.status = "ok"
  /\ \E value \in EnumStrs :
       /\ enumArg' = value
       /\ enumRet' = Return(EnumLambda(converter.value, value))
  /\ UNCHANGED <<prefix, converter, handlerVars, threadVars>>

NextEnum == CallEnumConverter \/ ApplyConverter

SpecEnum == InitEnum /\ [][NextEnum]_vars

---------------------------------------------------------------------------
(* Calls of ConvertUrlHandler on one dict from several threads.  A thread  *)
(* runs the statements of lines 220-247 in order; between two statements   *)
(* another thread may run.                                                  *)

InitThreads ==
  /\ \E D \in KeySets(MaxConcFields) : handler \in DictsOver(D)
  /\ passed = handler
  /\ lastOp = "none"
  /\ ret = NoCall
  /\ first = NoCall
  /\ ncalls = 0
  /\ IdleEnum
  /\ pc = [t \in Threads |-> "line220"]
  /\ locals = [t \in Threads |-> [handler_type |-> "none", tmp |-> EmptyDict]]
  /\ outcome = [t \in Threads |-> NoCall]

Finish(t, o) ==
  /\ pc' = [pc EXCEPT ![t] = "done"]
  /\ outcome' = [outcome EXCEPT ![t] = o]

\* Line 220 and the test of line 225.
StepResolve(t) ==
  /\ pc[t] = "line220"
  /\ LET r == GetHandlerType(handler) IN
     IF r.status # "ok"
       THEN Finish(t, Raise(r.status)) /\ UNCHANGED locals
       ELSE /\ locals' = [locals EXCEPT ![t].handler_type = r.value]
            /\ pc' = [pc EXCEPT ![t] =
                        IF r.value = "staticDirectory" THEN "line226" ELSE "line235"]
            /\ UNCHANGED outcome
  /\ UNCHANGED <<handler, passed, lastOp, ret, first, ncalls, enumVars>>

\* Lines 226-230.
StepBuildTmp(t) ==
  /\ pc[t] = "line226"
  /\ LET r == BuildTmp(handler) IN
     IF r.status # "ok"
       THEN Finish(t, Raise(r.status)) /\ UNCHANGED locals
       ELSE /\ locals' = [locals EXCEPT ![t].tmp = r.value]
            /\ pc' = [pc EXCEPT ![t] = "line231"]
            /\ UNCHANGED outcome
  /\ UNCHANGED <<handler, passed, lastOp, ret, first, ncalls, enumVars>>

\* Line 231.
StepDel(t) ==
  /\ pc[t] = "line231"
  /\ LET r == DelStaticDir(handler) IN
     IF r.status # "ok"
       THEN Finish(t, Raise(r.status)) /\ UNCHANGED handler
       ELSE /\ handler' = r.value
            /\ pc' = [pc EXCEPT ![t] = "line232"]
            /\ UNCHANGED outcome
  /\ UNCHANGED <<locals, passed, lastOp, ret, first, ncalls, enumVars>>

\* Lines 232-233.
StepUpdate(t) ==
  /\ pc[t] = "line232"
  /\ handler' = DictUpdate(handler, locals[t].tmp)
  /\ locals' = [locals EXCEPT ![t].handler_type = "staticFiles"]
  /\ pc' = [pc EXCEPT ![t] = "line235"]
  /\ UNCHANGED <<outcome, passed, lastOp, ret, first, ncalls, enumVars>>

\* Lines 235-247.
StepCopy(t) ==
  /\ pc[t] = "line235"
  /\ Finish(t, Return(Restructure(handler, locals[t].handler_type)))
  /\ UNCHANGED <<handler, locals, passed, lastOp, ret, first, ncalls, enumVars>>

NextThreads ==
  \E t \in Threads :
    StepResolve(t) \/ StepBuildTmp(t) \/ StepDel(t) \/ StepUpdate(t) \/ StepCopy(t)

SpecThreads == InitThreads /\ [][NextThreads]_vars

---------------------------------------------------------------------------
(* Properties of _GetHandlerType and ConvertUrlHandler, one call at a time *)

Precedence == <<"apiEndpoint", "staticDir", "path", "scriptPath">>
TypeNames == <<"apiEndpoint", "staticDirectory", "staticFiles", "script">>

HasDiscriminant(h) == DOMAIN h \cap DISCRIMINANTS # {}

\* Position in Precedence of the first discriminant field the dict carries.
FirstPresent(h) ==
  CHOOSE i \in 1..4 :
    /\ Precedence[i] \in DOMAIN h
    /\ \A j \in 1..(i - 1) : Precedence[j] \notin DOMAIN h

\* s without its trailing slashes: the longest prefix that does not end in "/".
Stripped(s) ==
  LET n == CHOOSE m \in 0..Len(s) :
             /\ m = 0 \/ s[m] # "/"
             /\ \A i \in (m + 1)..Len(s) : s[i] = "/"
  IN SubSeq(s, 1, n)

IsStaticDirRecord(h) == "staticDir" \in DOMAIN h /\ "apiEndpoint" \notin DOMAIN h

Converted == lastOp = "ConvertUrlHandler"
Accepted == Converted /\ ret.status = "ok"

\* C1: for a record carrying any non-empty subset of the four discriminant
\* fields, _GetHandlerType returns the type of the first one present in the
\* order apiEndpoint, staticDir, path, scriptPath, whatever else it carries.
C1_FirstPresentWins ==
  (lastOp = "_GetHandlerType" /\ HasDiscriminant(passed)) =>
    /\ ret.status = "ok"
    /\ ret.value = TypeNames[FirstPresent(passed)]

C1_Witness ==
  /\ lastOp = "_GetHandlerType"
  /\ DOMAIN passed = {"staticDir", "path", "scriptPath"}
  /\ ret.value = "staticDirectory"

\* C2: ConvertUrlHandler raises ValueError and returns no record exactly on
\* the records that carry none of the four discriminant fields.
C2_ClassificationError ==
  Converted =>
    /\ (ret.status = "ValueError") <=> ~HasDiscriminant(passed)
    /\ ret.status = "ValueError" => ret.value = EmptyDict

C2_Witness ==
  /\ Converted
  /\ ret.status = "ValueError"
  /\ {"urlRegex", OtherField} \subseteq DOMAIN passed

\* C3: a record resolved as staticDirectory, with urlRegex u and staticDir d,
\* comes back with the key staticFiles, staticFiles.path = strip(d) + '/\1',
\* staticFiles.uploadPathRegex = strip(d) + '/.*' and urlRegex =
\* strip(u) + '/(.*)', also when d or u ends in slashes and when the record
\* already had path or uploadPathRegex.
C3_SugarExpansion ==
  (Converted /\ IsStaticDirRecord(passed) /\ "urlRegex" \in DOMAIN passed) =>
    /\ ret.status = "ok"
    /\ "staticFiles" \in DOMAIN ret.value
    /\ {"path", "uploadPathRegex"} \subseteq DOMAIN ret.value["staticFiles"]
    /\ ret.value["staticFiles"]["path"] =
         Stripped(passed["staticDir"]) \o <<"/", "\\", "1">>
    /\ ret.value["staticFiles"]["uploadPathRegex"] =
         Stripped(passed["staticDir"]) \o <<"/", ".", "*">>
    /\ "urlRegex" \in DOMAIN ret.value
    /\ ret.value["urlRegex"] = Stripped(passed["urlRegex"]) \o <<"/", "(", ".", "*", ")">>

C3_Witness ==
  /\ Converted
  /\ DOMAIN passed = {"staticDir", "urlRegex", "path"}
  /\ passed["staticDir"] = <<"/", "/">>
  /\ passed["urlRegex"] = <<"a", "/">>
  /\ ret.status = "ok"
  /\ ret.value["staticFiles"]["path"] = <<"/", "\\", "1">>
  /\ ret.value["urlRegex"] = <<"a", "/", "(", ".", "*", ")">>

\* The type sub-message of a returned record.
SubMessage(out) == out[CHOOSE t \in HANDLER_TYPES : t \in DOMAIN out]

\* C4 as stated: for every accepted record, staticDir records included, each
\* common field of the input is at the top level of the output with the
\* input's value, and each field of the sub-message has the input's value.
C4_AllCopiedUnchanged ==
  Accepted =>
    /\ \A f \in COMMON_HANDLER_FIELDS \cap DOMAIN passed :
         f \in DOMAIN ret.value /\ ret.value[f] = passed[f]
    /\ \A f \in DOMAIN SubMessage(ret.value) :
         f \in DOMAIN passed /\ SubMessage(ret.value)[f] = passed[f]

\* C4, amended: each common field of the input is at the top level of the
\* output, and each copied field has the input's value, except the three
\* fields the sugar expansion synthesizes for a staticDirectory record
\* (urlRegex, path, uploadPathRegex).
C4_CopiedUnchangedExceptSynthesized ==
  Accepted =>
    LET synth == IF IsStaticDirRecord(passed)
                   THEN {"urlRegex", "path", "uploadPathRegex"} ELSE {}
    IN /\ \A f \in COMMON_HANDLER_FIELDS \cap DOMAIN passed :
            f \in DOMAIN ret.value /\ (f \notin synth => ret.value[f] = passed[f])
       /\ \A f \in (DOMAIN SubMessage(ret.value)) \ synth :
            f \in DOMAIN passed /\ SubMessage(ret.value)[f] = passed[f]

C4_Witness ==
  /\ Accepted
  /\ DOMAIN passed = {"staticDir", "urlRegex", "login"}
  /\ ret.value["login"] = passed["login"]
  /\ ret.value["urlRegex"] # passed["urlRegex"]

\* The key set of the handler after the sugar expansion.
ExpandedKeys(h) ==
  IF IsStaticDirRecord(h)
    THEN ((DOMAIN h) \ {"staticDir"}) \cup {"path", "uploadPathRegex", "urlRegex"}
    ELSE DOMAIN h

CanonicalType(h) ==
  LET t == TypeNames[FirstPresent(h)] IN IF t = "staticDirectory" THEN "staticFiles" ELSE t

\* C5: a returned record has exactly one of the keys staticFiles, script,
\* apiEndpoint and never staticDirectory or staticDir; the sub-message holds
\* exactly the allowlisted fields of the expanded handler, the other
\* top-level keys are exactly its common fields, all else is dropped.
C5_OutputShape ==
  Accepted =>
    LET out == ret.value
        t == CanonicalType(passed)
    IN /\ DOMAIN out \cap HANDLER_TYPES = {t}
       /\ "staticDirectory" \notin DOMAIN out
       /\ "staticDir" \notin DOMAIN out
       /\ DOMAIN out[t] = HANDLER_FIELDS(t) \cap ExpandedKeys(passed)
       /\ (DOMAIN out) \ {t} = COMMON_HANDLER_FIELDS \cap ExpandedKeys(passed)

C5_Witness ==
  /\ Accepted
  /\ DOMAIN passed = {"apiEndpoint", "staticDir", OtherField}
  /\ ret.value = [k \in {"apiEndpoint"} |-> EmptyDict]

\* C6: after ConvertUrlHandler returns, the record passed in has exactly the
\* fields and values it had before the call.
C6_ArgumentUnchanged ==
  Accepted => handler = passed

\* C8: when a first call succeeds, a later call on the same record object
\* succeeds and returns a record equal to the first call's result.
C8_Memoizable ==
  (Converted /\ ncalls >= 2 /\ first.status = "ok") =>
    /\ ret.status = "ok"
    /\ ret.value = first.value

C8_Witness ==
  /\ Converted
  /\ ncalls = 2
  /\ first.status = "ok"
  /\ "scriptPath" \in DOMAIN passed
  /\ "staticFiles" \in DOMAIN first.value
  /\ "path" \in DOMAIN first.value["staticFiles"]
  /\ first.value["staticFiles"]["path"] = <<"a", "/", "\\", "1">>

\* C10: when ConvertUrlHandler fails, the record passed in has the same
\* fields and values after the call as before it.
C10_FailsBeforeAnyChange ==
  (Converted /\ ret.status # "ok") => handler = passed

C10_Witness ==
  /\ Converted
  /\ ret.status = "KeyError"
  /\ "staticDir" \in DOMAIN handler
  /\ "path" \notin DOMAIN handler
  /\ "uploadPathRegex" \notin DOMAIN handler

---------------------------------------------------------------------------
(* Properties of EnumConverter *)

IsLower(c) == c = "a"

BadPrefix(p) ==
  \/ Len(p) = 0
  \/ \E i \in 1..Len(p) : IsLower(p[i])
  \/ p[Len(p)] = "_"

Uppercased(s) == [i \in 1..Len(s) |-> IF s[i] = "a" THEN "A" ELSE s[i]]

\* C9: EnumConverter(prefix) raises ValueError, and returns no function, for
\* every prefix that is empty, not upper-case or ends with an underscore; for
\* every other prefix the returned function maps any string value to
\* prefix + '_' + uppercase(value).
C9_EagerPrefixValidation ==
  /\ converter # NoCall =>
       converter.status = (IF BadPrefix(prefix) THEN "ValueError" ELSE "ok")
  /\ enumRet # NoCall =>
       /\ ~BadPrefix(prefix)
       /\ enumRet.status = "ok"
       /\ enumRet.value = prefix \o <<"_">> \o Uppercased(enumArg)

C9_Witness ==
  /\ prefix = <<"_", "A">>
  /\ enumArg = <<"a", "_">>
  /\ enumRet = Return(<<"_", "A", "_", "A", "_">>)

---------------------------------------------------------------------------
(* Properties of concurrent calls *)

\* C7: with the statements of two or more calls on one record interleaved,
\* every call completes without error and returns what a single call running
\* alone on that record returns.
C7_ConcurrentCallsAgree ==
  LET alone == ConvertUrlHandler(passed) IN
  \A t \in Threads :
    (pc[t] = "done" /\ alone.status = "ok") =>
      /\ outcome[t].status = "ok"
      /\ outcome[t].value = alone.value

===========================================================================
